---- MODULE Spec2Model ----
(***************************************************************************)
(* Model of local-media-stream: the Flask handlers of app.py (select_file,  *)
(* start_stream, stop_stream) and the background worker of stream.py       *)
(* (run_ffmpeg, serve_output, cleanup_stream_folder).                      *)
(*                                                                         *)
(* Strings are sequences of one-character strings, so that the string      *)
(* operations the code relies on (startswith, join, normpath, dirname,     *)
(* splitext) are computed the way the library computes them.               *)
(***************************************************************************)
EXTENDS Integers, Sequences, FiniteSets, Bags, TLC

VARIABLES
    session,             \* flask.session: a dict over the keys video, subtitle, delay
    workers,             \* the live threads created by start_stream, a bag of closures
    dirs,                \* directories that exist
    files,               \* regular files that exist
    STREAM_FOLDER_PATH,  \* stream.py global
    cwd,                 \* the process's working directory (os.chdir)
    httpd,               \* TRUE while a TCPServer is bound to port 9000
    running,             \* the web process is up
    arg,                 \* harness of PathSpec and JobSpec: the input under study
    ret                  \* harness of PathSpec and JobSpec: what the call produced

vars == <<session, workers, dirs, files, STREAM_FOLDER_PATH, cwd, httpd, running, arg, ret>>

progVars == <<session, workers, dirs, files, STREAM_FOLDER_PATH, httpd, running>>

\* Python's None where a string is expected: no path is this one-element sequence
None == <<"None">>

\* no exception
NoExc == "none"

\* ------------------------------------------------------------- bounds
\* longest rel_path, in segments, given to secure_path in PathSpec
MaxSegs == 3
\* threads alive at once (threading.Thread is unbounded in the code)
MaxWorkers == 2

\* ------------------------------------------------------------- strings
SLASH == "/"

startswith(s, prefix) ==
    /\ Len(s) >= Len(prefix)
    /\ SubSeq(s, 1, Len(prefix)) = prefix

endswith(s, suffix) ==
    /\ Len(s) >= Len(suffix)
    /\ SubSeq(s, Len(s) - Len(suffix) + 1, Len(s)) = suffix

\* str.split('/'): the pieces between separators, empty pieces kept
RECURSIVE split(_)
split(s) ==
    IF s = <<>> THEN << <<>> >>
    ELSE LET r == split(Tail(s))
         IN  IF Head(s) = SLASH THEN << <<>> >> \o r
             ELSE << <<Head(s)>> \o Head(r) >> \o Tail(r)

\* '/'.join(comps)
RECURSIVE joinSlash(_)
joinSlash(comps) ==
    IF comps = <<>> THEN <<>>
    ELSE IF Len(comps) = 1 THEN Head(comps)
    ELSE Head(comps) \o <<SLASH>> \o joinSlash(Tail(comps))

\* s.rfind('/') + 1: the index of the last separator, 0 when there is none
RECURSIVE rfindSlash(_)
rfindSlash(s) ==
    IF s = <<>> THEN 0
    ELSE IF s[Len(s)] = SLASH THEN Len(s)
    ELSE rfindSlash(SubSeq(s, 1, Len(s) - 1))

RECURSIVE rstripSlash(_)
rstripSlash(s) ==
    IF s # <<>> /\ s[Len(s)] = SLASH THEN rstripSlash(SubSeq(s, 1, Len(s) - 1)) ELSE s

allSlashes(s) == \A i \in 1..Len(s) : s[i] = SLASH

\* ------------------------------------------------------------- os.path (posix)
isabs(p) == startswith(p, <<SLASH>>)

\* os.path.join(a, b)
join_ignoring_absolute(a, b) ==
    IF a = <<>> \/ endswith(a, <<SLASH>>) THEN a \o b ELSE a \o <<SLASH>> \o b

join(a, b) ==
    IF isabs(b) THEN b
    ELSE IF a = <<>> \/ endswith(a, <<SLASH>>) THEN a \o b
    ELSE a \o <<SLASH>> \o b

\* the loop of os.path.normpath over the split components
RECURSIVE normComps(_, _, _)
normComps(comps, new_comps, initial_slashes) ==
    IF comps = <<>> THEN new_comps
    ELSE LET comp == Head(comps)
             DOTDOT == <<".", ".">>
         IN  IF comp = <<>> \/ comp = <<".">>
             THEN normComps(Tail(comps), new_comps, initial_slashes)
             ELSE IF \/ comp # DOTDOT
                     \/ (initial_slashes = 0 /\ new_comps = <<>>)
                     \/ (new_comps # <<>> /\ new_comps[Len(new_comps)] = DOTDOT)
             THEN normComps(Tail(comps), Append(new_comps, comp), initial_slashes)
             ELSE IF new_comps # <<>>
             THEN normComps(Tail(comps), SubSeq(new_comps, 1, Len(new_comps) - 1), initial_slashes)
             ELSE normComps(Tail(comps), new_comps, initial_slashes)

normpath(path) ==
    IF path = <<>> THEN <<".">>
    ELSE LET initial_slashes ==
                 IF ~startswith(path, <<SLASH>>) THEN 0
                 ELSE IF startswith(path, <<SLASH, SLASH>>)
                         /\ ~startswith(path, <<SLASH, SLASH, SLASH>>) THEN 2
                 ELSE 1
             body == joinSlash(normComps(split(path), <<>>, initial_slashes))
             out == [i \in 1..initial_slashes |-> SLASH] \o body
         IN  IF out = <<>> THEN <<".">> ELSE out

\* os.path.abspath(path), in a process whose working directory is wd
abspath(path, wd) ==
    IF isabs(path) THEN normpath(path) ELSE normpath(join(wd, path))

dirname(p) ==
    LET i == rfindSlash(p)
        head == SubSeq(p, 1, i)
    IN  IF head # <<>> /\ ~allSlashes(head) THEN rstripSlash(head) ELSE head

basename(p) == SubSeq(p, rfindSlash(p) + 1, Len(p))

\* index of the last '.' of s, 0 when there is none
RECURSIVE rfindDot(_)
rfindDot(s) ==
    IF s = <<>> THEN 0
    ELSE IF s[Len(s)] = "." THEN Len(s)
    ELSE rfindDot(SubSeq(s, 1, Len(s) - 1))

\* os.path.splitext(p)[1]: from the last dot of the last component, unless that
\* dot only follows leading dots
splitext1(p) ==
    LET name == basename(p)
        d == rfindDot(name)
    IN  IF d = 0 \/ (\A i \in 1..d : name[i] = ".") THEN <<>>
        ELSE SubSeq(name, d, Len(name))

\* str.lower() over the letters the model's names use
lowerChar(c) ==
    CASE c = "T" -> "t"
      [] c = "S" -> "s"
      [] c = "V" -> "v"
      [] OTHER -> c

lower(s) == [i \in 1..Len(s) |-> lowerChar(s[i])]

\* ------------------------------------------------------------- app.py constants
\* MOVIES_DIR: the default is expanduser("~/Movies"), an absolute path
MOVIES_DIR == <<"/", "h", "/", "m">>

VIDEO_EXTS ==
    { <<".", "m", "p", "4">>, <<".", "m", "k", "v">>, <<".", "a", "v", "i">>,
      <<".", "m", "o", "v">>, <<".", "f", "l", "v">>, <<".", "w", "m", "v">>,
      <<".", "w", "e", "b", "m">>, <<".", "t", "s">> }

SUB_EXTS ==
    { <<".", "s", "r", "t">>, <<".", "v", "t", "t">>, <<".", "a", "s", "s">>,
      <<".", "s", "s", "a">> }

\* ------------------------------------------------------------- secure_path
\* The result of a call: the path returned, or the exception raised.
Returned(p) == [ok |-> TRUE, path |-> p, exc |-> NoExc]
Raised(e) == [ok |-> FALSE, path |-> <<>>, exc |-> e]

secure_path_no_join(rel_path, wd) ==
    LET abs_path == abspath(join_ignoring_absolute(<<>>, rel_path), wd)
    IN  IF ~startswith(abs_path, abspath(MOVIES_DIR, wd))
        THEN Raised("ValueError")
        ELSE Returned(abs_path)

secure_path(rel_path, wd) ==
    LET abs_path == abspath(join(MOVIES_DIR, rel_path), wd)
    IN  IF ~startswith(abs_path, abspath(MOVIES_DIR, wd))
        THEN Raised("ValueError")
        ELSE Returned(abs_path)

\* ------------------------------------------------------------- the filesystem
Str_h == <<"/", "h">>
Str_a == <<"a">>
Str_m2 == <<"m", "2">>
Str_v_ts == <<"v", ".", "t", "s">>
Str_x_ts == <<"x", ".", "t", "s">>
Str_g_ts == <<"g", ".", "t", "s">>
Str_g_srt == <<"g", ".", "s", "r", "t">>
Str_s_srt == <<"s", ".", "s", "r", "t">>
Str_n_txt == <<"n", ".", "t", "x", "t">>
Str_stream == <<"s", "t", "r", "e", "a", "m">>
Str_output_m3u8 == <<"o", "u", "t", "p", "u", "t", ".", "m", "3", "u", "8">>
Str_master_m3u8 == <<"m", "a", "s", "t", "e", "r", ".", "m", "3", "u", "8">>
Str_segment_000_ts == <<"s", "e", "g", "m", "e", "n", "t", "_", "0", "0", "0", ".", "t", "s">>
Str_dotdot == <<".", ".">>

\* a sibling of MOVIES_DIR whose name begins with MOVIES_DIR's name
SIBLING_DIR == join(Str_h, Str_m2)

\* the directory the process was launched from
LAUNCH_DIR == Str_h

\* The tree the process starts on: a video, a subtitle, a file of another type and
\* a directory under MOVIES_DIR, and a video in the sibling.
InitDirs == { <<SLASH>>, Str_h, MOVIES_DIR, join(MOVIES_DIR, Str_a), SIBLING_DIR }

InitFiles ==
    { join(MOVIES_DIR, Str_v_ts),
      join(MOVIES_DIR, Str_s_srt), join(MOVIES_DIR, Str_n_txt),
      join(SIBLING_DIR, Str_x_ts) }

isfile(p) == p \in files
isdir(p) == p \in dirs
exists(p) == p \in files \/ p \in dirs

\* p is folder or lies below it
Under(p, folder) == p = folder \/ startswith(p, folder \o <<SLASH>>)

\* the directories os.makedirs(p, exist_ok=True) leaves in place: p and its ancestors
RECURSIVE withAncestors(_)
withAncestors(p) ==
    IF p = <<>> \/ allSlashes(p) THEN {p} ELSE {p} \cup withAncestors(dirname(p))

\* what shutil.rmtree(folder) leaves of a set of paths
without(paths, folder) == { p \in paths : ~Under(p, folder) }

\* ------------------------------------------------------------- requests
\* float(s), in tenths: an optional sign, digits, optionally a point and one digit
Digit(c) ==
    CASE c = "0" -> 0 [] c = "1" -> 1 [] c = "2" -> 2 [] c = "3" -> 3 [] c = "4" -> 4
      [] c = "5" -> 5 [] c = "6" -> 6 [] c = "7" -> 7 [] c = "8" -> 8 [] c = "9" -> 9
      [] OTHER -> -1

RECURSIVE digitsValue(_)
digitsValue(s) ==
    IF s = <<>> THEN 0 ELSE 10 * digitsValue(SubSeq(s, 1, Len(s) - 1)) + Digit(s[Len(s)])

allDigits(s) == s # <<>> /\ \A i \in 1..Len(s) : Digit(s[i]) >= 0

float(s) ==
    LET neg == s # <<>> /\ s[1] = "-"
        u == IF neg THEN Tail(s) ELSE s
        d == rfindDot(u)
        whole == IF d = 0 THEN u ELSE SubSeq(u, 1, d - 1)
        frac == IF d = 0 THEN <<"0">> ELSE SubSeq(u, d + 1, Len(u))
        well == allDigits(whole) /\ allDigits(frac) /\ Len(frac) = 1
        v == 10 * digitsValue(whole) + digitsValue(frac)
    IN  IF ~well THEN Raised("ValueError")
        ELSE [ok |-> TRUE, path |-> <<>>, exc |-> NoExc, val |-> IF neg THEN 0 - v ELSE v]

\* request.form.get('delay', 1.5): the field's text, or the default 1.5
DEFAULT_DELAY == 15

\* the delay fields a start request is sent with: none, and an empty field
FormDelays == { None, <<>> }

\* the path parameters a select request is sent with
SelectPaths ==
    { <<>>,
      Str_v_ts,
      Str_s_srt,
      Str_n_txt,
      Str_a,
      joinSlash(<<Str_dotdot, Str_x_ts>>),
      joinSlash(<<Str_dotdot, Str_m2, Str_x_ts>>),
      Str_g_ts }

STREAM_PORT == 9000

\* an HTTP response; status 0 stands for a request that ends without one
Resp(status, body) == [status |-> status, body |-> body]

NoRet == [ok |-> FALSE, path |-> <<>>, exc |-> "not called"]

\* flask.session as a dict: get, item assignment, pop
EmptySession == [k \in {} |-> None]
session_get(key) == IF key \in DOMAIN session THEN session[key] ELSE None
session_set(key, value) ==
    [k \in DOMAIN session \cup {key} |-> IF k = key THEN value ELSE session[k]]
session_pop(sess, key) == [k \in DOMAIN sess \ {key} |-> sess[k]]

\* The session is the client's cookie and outlives the process: at start-up it is
\* empty, or still names a video or a subtitle selected in an earlier run whose
\* file is gone.
StaleVideo == [k \in {"video"} |-> Str_g_ts]
StaleSubtitle == [k \in {"subtitle"} |-> Str_g_srt]

\* ------------------------------------------------------------- construction
Init ==
    /\ session \in { EmptySession, StaleVideo, StaleSubtitle }
    /\ workers = EmptyBag
    /\ dirs = InitDirs
    /\ files = InitFiles
    /\ STREAM_FOLDER_PATH = None
    /\ cwd = LAUNCH_DIR
    /\ httpd = FALSE
    /\ running = TRUE
    /\ arg = <<>>
    /\ ret = NoRet

\* ------------------------------------------------------------- app.py handlers
\* Each handler is an outcome (the branch the code leaves by), the response of
\* that branch, and the action that applies the branch's assignments.

select_outcome(rel_path) ==
    LET r == secure_path(rel_path, cwd)
        ext == lower(splitext1(rel_path))
    IN  IF rel_path = <<>> THEN "invalid"
        ELSE IF ~r.ok THEN r.exc
        ELSE IF ~isfile(r.path) THEN "not a file"
        ELSE IF ext \in VIDEO_EXTS THEN "video"
        ELSE IF ext \in SUB_EXTS THEN "subtitle"
        ELSE "unsupported"

select_response(rel_path) ==
    LET o == select_outcome(rel_path)
    IN  CASE o = "invalid" -> Resp(400, "Invalid selection")
          [] o = "not a file" -> Resp(400, "Not a file")
          [] o = "unsupported" -> Resp(400, "Unsupported file type")
          [] o \in {"video", "subtitle"} -> Resp(302, "browse")
          [] OTHER -> Resp(500, o)

select_file(rel_path) ==
    /\ running
    /\ LET o == select_outcome(rel_path)
       IN  session' = IF o \in {"video", "subtitle"} THEN session_set(o, rel_path)
                      ELSE session
    /\ UNCHANGED <<workers, dirs, files, STREAM_FOLDER_PATH, cwd, httpd, running, arg, ret>>

\* stream.validate_paths: the exception it leaves with
validate_paths(movie_path, subtitle_path) ==
    IF ~isfile(movie_path) THEN "SystemExit"
    ELSE IF subtitle_path # None /\ ~isfile(subtitle_path) THEN "SystemExit"
    ELSE NoExc

\* Files that exist but cannot be read: cloud placeholders whose download fails.
\* open(path, 'rb') or f.read(1) raises OSError for them.
Str_c_ts == <<"c", ".", "t", "s">>
Str_c_srt == <<"c", ".", "s", "r", "t">>
Unreadable == { join(MOVIES_DIR, Str_c_ts), join(MOVIES_DIR, Str_c_srt) }

\* with open(path, 'rb') as f: f.read(1)
open_read(path) == IF isfile(path) /\ path \notin Unreadable THEN "read" ELSE "OSError"

\* ensure_local without its try/except: the exception leaves the function
ensure_local_uncaught(path) == open_read(path)

\* ensure_local: reads one byte; every exception is caught and printed
ensure_local(path) == IF open_read(path) = "read" THEN "read" ELSE "warning"

\* the calls of ensure_local start_stream makes, in order, each with its outcome
materialized(movie_path, subtitle_path) ==
    IF subtitle_path # None
    THEN << <<movie_path, ensure_local(movie_path)>>,
            <<subtitle_path, ensure_local(subtitle_path)>> >>
    ELSE << <<movie_path, ensure_local(movie_path)>> >>

\* an exception that left ensure_local, "none" when each call returned
materialize_exc(movie_path, subtitle_path) ==
    LET local == materialized(movie_path, subtitle_path)
        raised == { i \in 1..Len(local) : local[i][2] \notin {"read", "warning"} }
    IN  IF raised = {} THEN NoExc ELSE local[CHOOSE i \in raised : \A j \in raised : i <= j][2]

\* the thread start_stream creates: worker()'s closure, not yet scheduled
Thread(movie_path, subtitle_path, stream_folder, delay) ==
    [ movie |-> movie_path, subtitle |-> subtitle_path, folder |-> stream_folder,
      port |-> STREAM_PORT, delay |-> delay,
      local |-> materialized(movie_path, subtitle_path),
      phase |-> "spawned", exited |-> FALSE, rc |-> 0, master |-> FALSE ]

\* float(request.form.get('delay', 1.5))
form_delay_value(form_delay) ==
    IF form_delay = None THEN [ok |-> TRUE, val |-> DEFAULT_DELAY, exc |-> NoExc]
    ELSE float(form_delay)

\* the paths start_stream resolves
start_movie == secure_path(session_get("video"), cwd)
start_subtitle ==
    IF session_get("subtitle") # None THEN secure_path(session_get("subtitle"), cwd)
    ELSE Returned(None)

start_outcome_no_video_check(form_delay) ==
    LET delay == form_delay_value(form_delay)
        movie == start_movie
        subtitle == start_subtitle
        invalid == validate_paths(movie.path, subtitle.path)
        unread == materialize_exc(movie.path, subtitle.path)
    IN  IF ~delay.ok THEN delay.exc
        ELSE IF ~movie.ok THEN movie.exc
        ELSE IF ~subtitle.ok THEN subtitle.exc
        ELSE IF invalid # NoExc THEN invalid
        ELSE IF unread # NoExc THEN unread
        ELSE "started"

start_outcome(form_delay) ==
    LET delay == form_delay_value(form_delay)
        movie == start_movie
        subtitle == start_subtitle
        invalid == validate_paths(movie.path, subtitle.path)
        unread == materialize_exc(movie.path, subtitle.path)
    IN  IF ~delay.ok THEN delay.exc
        ELSE IF session_get("video") = None THEN "no video"
        ELSE IF ~movie.ok THEN movie.exc
        ELSE IF ~subtitle.ok THEN subtitle.exc
        ELSE IF invalid # NoExc THEN invalid
        ELSE IF unread # NoExc THEN unread
        ELSE "started"

start_response(form_delay) ==
    LET o == start_outcome(form_delay)
    IN  CASE o = "no video" -> Resp(400, "No video selected")
          [] o = "started" -> Resp(200, "http://host:9000/output.m3u8")
          [] o = "SystemExit" -> Resp(0, o)
          [] OTHER -> Resp(500, o)

\* start_stream calling run_ffmpeg itself instead of handing it to a thread
start_stream_inline(form_delay) ==
    /\ running
    /\ LET o == start_outcome(form_delay)
           delay == form_delay_value(form_delay).val
           movie_path == start_movie.path
           movie_folder == dirname(movie_path)
           stream_folder == join(movie_folder, Str_stream)
           t == Thread(movie_path, start_subtitle.path, stream_folder, delay)
       IN  /\ o = "started" => BagCardinality(workers) < MaxWorkers
           /\ session' = IF o \in {"no video", "started"} THEN session_set("delay", delay)
                         ELSE session
           /\ workers' = IF o = "started"
                         THEN workers (+) SetToBag({[t EXCEPT !.phase = "transcoding"]})
                         ELSE workers
           /\ STREAM_FOLDER_PATH' = IF o = "started" THEN stream_folder
                                    ELSE STREAM_FOLDER_PATH
           /\ dirs' = IF o = "started" THEN dirs \cup withAncestors(stream_folder) ELSE dirs
    /\ UNCHANGED <<files, cwd, httpd, running, arg, ret>>

start_stream(form_delay) ==
    /\ running
    /\ LET o == start_outcome(form_delay)
           delay == form_delay_value(form_delay).val
           movie_path == start_movie.path
           movie_folder == dirname(movie_path)
           stream_folder == join(movie_folder, Str_stream)
       IN  /\ o = "started" => BagCardinality(workers) < MaxWorkers
           /\ session' = IF o \in {"no video", "started"} THEN session_set("delay", delay)
                         ELSE session
           /\ workers' = IF o = "started"
                         THEN workers (+) SetToBag({Thread(movie_path,
                                  start_subtitle.path, stream_folder, delay)})
                         ELSE workers
    /\ UNCHANGED <<dirs, files, STREAM_FOLDER_PATH, cwd, httpd, running, arg, ret>>

\* the folder stop_stream hands to shutil.rmtree, None when it hands none
stop_folder ==
    LET video_rel == session_get("video")
        movie_path == secure_path(video_rel, cwd)
    IN  IF video_rel = None \/ ~movie_path.ok THEN None
        ELSE join(dirname(movie_path.path), Str_stream)

stop_response == Resp(302, "browse")

\* the threads of bag b that are in one of the given phases, as a bag
InPhase(b, phases) == [w \in { x \in BagToSet(b) : x.phase \in phases } |-> b[w]]

\* stop_stream ending the threads whose transcoder is still running
stop_stream_kills(rmtree_ok) ==
    /\ running
    /\ LET stream_folder == stop_folder
           deletes == stream_folder # None /\ rmtree_ok /\ isdir(stream_folder)
       IN  /\ session' = session_pop(session_pop(session_pop(session, "video"), "subtitle"), "delay")
           /\ dirs' = IF deletes THEN without(dirs, stream_folder) ELSE dirs
           /\ files' = IF deletes THEN without(files, stream_folder) ELSE files
    /\ workers' = InPhase(workers, {"spawned", "ready", "serving"})
    /\ UNCHANGED <<STREAM_FOLDER_PATH, cwd, httpd, running, arg, ret>>

\* stop_stream reading the video with session.get, so that it stays selected
stop_stream_keeps_video(rmtree_ok) ==
    /\ running
    /\ LET stream_folder == stop_folder
           deletes == stream_folder # None /\ rmtree_ok /\ isdir(stream_folder)
       IN  /\ session' = session_pop(session_pop(session, "subtitle"), "delay")
           /\ dirs' = IF deletes THEN without(dirs, stream_folder) ELSE dirs
           /\ files' = IF deletes THEN without(files, stream_folder) ELSE files
    /\ UNCHANGED <<workers, STREAM_FOLDER_PATH, cwd, httpd, running, arg, ret>>

\* rmtree_ok: whether shutil.rmtree manages to delete (its errors are ignored)
stop_stream(rmtree_ok) ==
    /\ running
    /\ LET stream_folder == stop_folder
           deletes == stream_folder # None /\ rmtree_ok /\ isdir(stream_folder)
       IN  /\ session' = session_pop(session_pop(session_pop(session, "video"), "subtitle"), "delay")
           /\ dirs' = IF deletes THEN without(dirs, stream_folder) ELSE dirs
           /\ files' = IF deletes THEN without(files, stream_folder) ELSE files
    /\ UNCHANGED <<workers, STREAM_FOLDER_PATH, cwd, httpd, running, arg, ret>>

\* ------------------------------------------------------------- stream.py worker
\* what ffmpeg leaves in the output folder when it exits with status zero
ffmpeg_output(folder) == { join(folder, Str_output_m3u8), join(folder, Str_segment_000_ts) }

\* the thread w goes on as w2
Becomes(w, w2) == (workers (-) SetToBag({w})) (+) SetToBag({w2})

\* an exception leaves run_ffmpeg and ends the thread w
Dies(w) == workers (-) SetToBag({w})

\* run_ffmpeg up to the launch of the transcoder: the global, makedirs, subprocess.run
run_ffmpeg_begin(w) ==
    /\ running
    /\ BagIn(w, workers)
    /\ w.phase = "spawned"
    /\ STREAM_FOLDER_PATH' = w.folder
    /\ dirs' = dirs \cup withAncestors(w.folder)
    /\ workers' = Becomes(w, [w EXCEPT !.phase = "transcoding"])
    /\ UNCHANGED <<session, files, cwd, httpd, running, arg, ret>>

\* run_ffmpeg going on to the master playlist and the server whatever the
\* transcoder's exit status (subprocess.run without check=True)
ffmpeg_exit_unchecked(w, returncode) ==
    /\ running
    /\ BagIn(w, workers)
    /\ w.phase = "transcoding"
    /\ returncode = 0 => isdir(w.folder)
    /\ files' = IF isdir(w.folder)
                THEN files \cup (IF returncode = 0 THEN ffmpeg_output(w.folder) ELSE {})
                           \cup { join(w.folder, Str_master_m3u8) }
                ELSE files
    /\ workers' = Becomes(w, [w EXCEPT !.phase = "ready", !.exited = TRUE,
                                       !.rc = returncode, !.master = isdir(w.folder)])
    /\ UNCHANGED <<session, dirs, STREAM_FOLDER_PATH, cwd, httpd, running, arg, ret>>

\* run_ffmpeg where the transcoder's failure ends the whole process at once
\* (os._exit in place of sys.exit)
ffmpeg_exit_fatal(w, returncode) ==
    /\ running
    /\ BagIn(w, workers)
    /\ w.phase = "transcoding"
    /\ returncode = 0 => isdir(w.folder)
    /\ IF returncode = 0
       THEN /\ files' = files \cup ffmpeg_output(w.folder)
                              \cup { join(w.folder, Str_master_m3u8) }
            /\ workers' = Becomes(w, [w EXCEPT !.phase = "ready", !.exited = TRUE,
                                               !.rc = returncode, !.master = TRUE])
            /\ UNCHANGED <<httpd, running>>
       ELSE /\ files' = files
            /\ workers' = EmptyBag
            /\ httpd' = FALSE
            /\ running' = FALSE
    /\ UNCHANGED <<session, dirs, STREAM_FOLDER_PATH, cwd, arg, ret>>

\* subprocess.run(check=True) returns, and the master playlist is written; or it
\* raises CalledProcessError, which run_ffmpeg turns into sys.exit(returncode).
\* The transcoder can only succeed into a folder that still exists.
ffmpeg_exit(w, returncode) ==
    /\ running
    /\ BagIn(w, workers)
    /\ w.phase = "transcoding"
    /\ returncode = 0 => isdir(w.folder)
    /\ IF returncode = 0
       THEN /\ files' = files \cup ffmpeg_output(w.folder)
                              \cup { join(w.folder, Str_master_m3u8) }
            /\ workers' = Becomes(w, [w EXCEPT !.phase = "ready", !.exited = TRUE,
                                               !.rc = returncode, !.master = TRUE])
       ELSE /\ files' = files
            /\ workers' = Dies(w)
    /\ UNCHANGED <<session, dirs, STREAM_FOLDER_PATH, cwd, httpd, running, arg, ret>>

\* serve_output: os.chdir(stream_folder_path), where FileNotFoundError ends the
\* thread; then socketserver.TCPServer(("", port), handler) binds and listens and
\* serve_forever follows, or the bind raises OSError because the port is taken
serve_output(w) ==
    /\ running
    /\ BagIn(w, workers)
    /\ w.phase = "ready"
    /\ IF ~isdir(w.folder)
       THEN /\ workers' = Dies(w)
            /\ UNCHANGED <<cwd, httpd>>
       ELSE /\ cwd' = w.folder
            /\ IF ~httpd
               THEN /\ httpd' = TRUE
                    /\ workers' = Becomes(w, [w EXCEPT !.phase = "serving"])
               ELSE /\ httpd' = httpd
                    /\ workers' = Dies(w)
    /\ UNCHANGED <<session, dirs, files, STREAM_FOLDER_PATH, running, arg, ret>>

\* ------------------------------------------------------------- the process
\* The process ends: atexit runs cleanup_stream_folder, the daemon threads and the
\* listening socket go with the process.
process_exit(rmtree_ok) ==
    /\ running
    /\ LET deletes == /\ STREAM_FOLDER_PATH # None
                      /\ exists(STREAM_FOLDER_PATH)
                      /\ rmtree_ok
       IN  /\ dirs' = IF deletes THEN without(dirs, STREAM_FOLDER_PATH) ELSE dirs
           /\ files' = IF deletes THEN without(files, STREAM_FOLDER_PATH) ELSE files
    /\ running' = FALSE
    /\ workers' = EmptyBag
    /\ httpd' = FALSE
    /\ UNCHANGED <<session, STREAM_FOLDER_PATH, cwd, arg, ret>>

ReturnCodes == {0, 1}

Next ==
    \/ \E p \in SelectPaths : select_file(p)
    \/ \E d \in FormDelays : start_stream(d)
    \/ \E ok \in BOOLEAN : stop_stream(ok)
    \/ \E w \in BagToSet(workers) : run_ffmpeg_begin(w)
    \/ \E w \in BagToSet(workers), rc \in ReturnCodes : ffmpeg_exit(w, rc)
    \/ \E w \in BagToSet(workers) : serve_output(w)
    \/ \E ok \in BOOLEAN : process_exit(ok)

Spec == Init /\ [][Next]_vars

\* ------------------------------------------------------------- secure_path alone
\* PathSpec applies secure_path to every rel_path of up to MaxSegs segments, relative
\* or with a leading slash, resolves again after the working directory has moved
\* (serve_output's os.chdir), and resolves what it returned.
Segs == { Str_dotdot, <<"h">>, <<"m">>, Str_m2, Str_a }

SegSeqs == UNION { [1..k -> Segs] : k \in 0..MaxSegs }

RelInputs == { joinSlash(q) : q \in SegSeqs } \cup { <<SLASH>> \o joinSlash(q) : q \in SegSeqs }

PathInit ==
    /\ session = EmptySession
    /\ workers = EmptyBag
    /\ dirs = InitDirs
    /\ files = InitFiles
    /\ STREAM_FOLDER_PATH = None
    /\ cwd = LAUNCH_DIR
    /\ httpd = FALSE
    /\ running = TRUE
    /\ arg \in RelInputs
    /\ ret = NoRet

PathCall ==
    /\ ret' = secure_path(arg, cwd)
    /\ UNCHANGED <<session, workers, dirs, files, STREAM_FOLDER_PATH, cwd, httpd, running, arg>>

PathChdir(d) ==
    /\ d \in dirs
    /\ cwd' = d
    /\ UNCHANGED <<session, workers, dirs, files, STREAM_FOLDER_PATH, httpd, running, arg, ret>>

PathResolveReturned ==
    /\ ret.ok
    /\ arg' = ret.path
    /\ ret' = NoRet
    /\ UNCHANGED <<session, workers, dirs, files, STREAM_FOLDER_PATH, cwd, httpd, running>>

PathNext ==
    \/ PathCall
    \/ \E d \in InitDirs : PathChdir(d)
    \/ PathResolveReturned

PathSpec == PathInit /\ [][PathNext]_vars

\* The place a path names, as the list of directory names from the filesystem
\* root: the yardstick the claims about secure_path are read against.
comps(p) == SelectSeq(split(p), LAMBDA c : c # <<>>)

RECURSIVE walk(_, _)
walk(stack, segs) ==
    IF segs = <<>> THEN stack
    ELSE IF Head(segs) = Str_dotdot
    THEN walk(IF stack = <<>> THEN stack ELSE SubSeq(stack, 1, Len(stack) - 1), Tail(segs))
    ELSE walk(Append(stack, Head(segs)), Tail(segs))

\* where MOVIES_DIR joined with rel_path leads: an absolute rel_path replaces the root
Location(rel_path) ==
    walk(IF isabs(rel_path) THEN <<>> ELSE comps(MOVIES_DIR), comps(rel_path))

\* MOVIES_DIR itself or a descendant of it
InsideRoot(loc) ==
    /\ Len(loc) >= Len(comps(MOVIES_DIR))
    /\ SubSeq(loc, 1, Len(comps(MOVIES_DIR))) = comps(MOVIES_DIR)

PathOf(loc) == <<SLASH>> \o joinSlash(loc)

\* C1: secure_path raises for every rel_path that leads outside the tree of
\* MOVIES_DIR, and whatever it returns lies inside that tree (a sibling directory
\* whose name begins with the root's name is outside).
C1_EscapeRejected ==
    ret # NoRet =>
        /\ ~InsideRoot(Location(arg)) => ~ret.ok
        /\ ret.ok => InsideRoot(comps(ret.path))

\* C2: for a rel_path that leads inside MOVIES_DIR, secure_path returns the
\* absolute normalized path of that place; a later call returns the same again,
\* wherever the working directory has moved; resolving the returned path returns
\* it unchanged; and the call changes nothing of the program's state.
C2_ResolveInside ==
    [][ (ret' # NoRet /\ InsideRoot(Location(arg'))) =>
            /\ ret'.ok
            /\ ret'.path = PathOf(Location(arg'))
            /\ ret # NoRet => ret' = ret
            /\ secure_path(ret'.path, cwd') = ret'
            /\ UNCHANGED progVars ]_vars

\* a path with '..' in it resolved inside the root, after the working directory moved
C2_Witness ==
    /\ ret.ok
    /\ InsideRoot(Location(arg))
    /\ arg # ret.path
    /\ Str_dotdot \in { comps(arg)[i] : i \in 1..Len(comps(arg)) }
    /\ cwd # LAUNCH_DIR

\* ------------------------------------------------------------- the job lifecycle
\* servers listening on the stream port
Serving(b) == InPhase(b, {"serving"})

\* a job is Running: its thread is in serve_forever
Running(b) == BagCardinality(Serving(b)) > 0

\* jobs that are Starting (transcoder launched, or done and about to serve) or Running
Active(b) == InPhase(b, {"transcoding", "ready", "serving"})

HasVideo == "video" \in DOMAIN session

\* the selection start_stream would read names no file, or leads out of MOVIES_DIR
Missing(key) == key \in DOMAIN session /\ ~isfile(PathOf(Location(session[key])))
Escapes(key) == key \in DOMAIN session /\ ~InsideRoot(Location(session[key]))

\* a delay field that float() accepts, or none
WellFormed(form_delay) == form_delay = None \/ float(form_delay).ok

\* C3 as stated: with no video in the session every start request is answered 400.
C3_NoVideoIs400 ==
    (running /\ ~HasVideo) => \A d \in FormDelays : start_response(d).status = 400

\* C3: with no video in the session a start request is answered with an error, 400
\* "No video selected" when its delay field is absent or a number and 500 when
\* float() rejects the field, and the request starts no thread, creates no
\* directory or file and binds no port.
C3_NoVideoNoWork ==
    /\ [] ((running /\ ~HasVideo) =>
              \A d \in FormDelays :
                  start_response(d) = IF WellFormed(d) THEN Resp(400, "No video selected")
                                      ELSE Resp(500, "ValueError"))
    /\ [][ \A d \in FormDelays :
               (~HasVideo /\ start_stream(d)) =>
                   UNCHANGED <<workers, dirs, files, httpd, STREAM_FOLDER_PATH, cwd>> ]_vars

\* a start request without a video was answered: only start_stream stores a delay
C3_Witness ==
    /\ running
    /\ ~HasVideo
    /\ "delay" \in DOMAIN session
    /\ workers = EmptyBag
    /\ ~httpd

\* C4: a start request whose selection leads out of MOVIES_DIR or names no
\* existing file is answered with an error and creates no thread.
C4_BadSelectionRefused ==
    [][ \A d \in FormDelays :
            ( /\ Escapes("video") \/ Escapes("subtitle") \/ Missing("video") \/ Missing("subtitle")
              /\ start_stream(d) )
                => (start_response(d).status # 200 /\ workers' = workers) ]_vars

\* C5: a stop request on a Running job, when rmtree raises nothing, leaves the
\* job's output directory deleted, and answers with the redirect. (Stated for
\* selections and jobs inside MOVIES_DIR.)
C5_StopDeletesOutput ==
    [][ (Running(workers) /\ ~Escapes("video") /\ stop_stream(TRUE)) =>
            /\ \A w \in BagToSet(Serving(workers)) :
                   InsideRoot(comps(w.movie)) => w.folder \notin dirs'
            /\ stop_response.status = 302 ]_vars

\* C6: a stop request on a Running job leaves no server listening on the stream port.
C6_StopShutsServer ==
    [][ \A ok \in BOOLEAN :
            (Running(workers) /\ stop_stream(ok)) => (~httpd' /\ ~Running(workers')) ]_vars

\* C7: a start request that arrives while a job is Running is either refused or
\* replaces that job (one job is left, the old server gone), and two servers never
\* listen on the stream port.
C7_SecondStart ==
    [][ /\ BagCardinality(Serving(workers')) <= 1
        /\ \A d \in FormDelays :
               (Running(workers) /\ start_stream(d)) =>
                   \/ start_response(d).status # 200
                   \/ (BagCardinality(workers') = 1 /\ ~Running(workers')) ]_vars

\* C8: at most one job is Starting or Running.
C8_OneActiveJob == BagCardinality(Active(workers)) <= 1

\* C9: a thread serves only after its transcoder exited with status zero and its
\* master playlist was written, the port is bound only by a thread that is ready to
\* serve, and a transcoder that exits non-zero ends its thread with no server
\* started.
C9_ServeAfterTranscode ==
    /\ [] (\A w \in BagToSet(workers) :
               w.phase = "serving" => (w.exited /\ w.rc = 0 /\ w.master))
    /\ [] (httpd => Running(workers))
    /\ [][ (httpd' /\ ~httpd) =>
               \E w \in BagToSet(workers) :
                   /\ w.phase = "ready" /\ w.exited /\ w.rc = 0 /\ w.master
                   /\ workers' = Becomes(w, [w EXCEPT !.phase = "serving"]) ]_vars
    /\ [][ \A w \in BagToSet(workers) :
               (\E rc \in ReturnCodes \ {0} : ffmpeg_exit(w, rc)) =>
                   /\ workers' = Dies(w)
                   /\ UNCHANGED <<httpd, files>> ]_vars

\* a server is listening
C9_Witness ==
    /\ httpd
    /\ \E w \in BagToSet(workers) : w.phase = "serving" /\ w.master

\* the selection is valid: the video, and the subtitle if one is selected, name
\* existing files
ValidSelection ==
    /\ HasVideo
    /\ ~Missing("video")
    /\ ~Missing("subtitle")

\* C10 as stated: with a valid video selected every start request is answered 200.
C10_ValidVideoIs200 ==
    (running /\ HasVideo /\ ~Missing("video") /\ ~Escapes("video")) =>
        \A d \in FormDelays : start_response(d).status = 200

\* C10: a start request with a valid selection and a delay field that is absent or
\* a number is answered 200 with the stream URL in every state, whatever the
\* threads of earlier jobs are doing; when the answer is produced the new thread
\* has not run: no directory, file, global or port has changed, and the thread is
\* merely created.
C10_StartReturnsAtOnce ==
    /\ [] ((running /\ ValidSelection) =>
              \A d \in FormDelays :
                  WellFormed(d) =>
                      start_response(d) = Resp(200, "http://host:9000/output.m3u8"))
    /\ [][ ValidSelection =>
               \A d \in { f \in FormDelays : WellFormed(f) } :
                   start_stream(d) =>
                       /\ \E w \in BagToSet(workers') :
                              /\ w.phase = "spawned"
                              /\ workers' = workers (+) SetToBag({w})
                       /\ UNCHANGED <<dirs, files, httpd, STREAM_FOLDER_PATH, cwd>> ]_vars

\* a start request was answered while an earlier job's transcoder is running and
\* another earlier job is serving, and its own thread has not run yet
C10_Witness ==
    /\ \E w \in BagToSet(workers) : w.phase = "spawned"
    /\ \E w \in BagToSet(workers) : w.phase \in {"transcoding", "serving"}

\* ------------------------------------------------------------- run_ffmpeg's products
\* One word of the command line: an option or a fixed value written in the code,
\* or a text computed at run time (a path, a number), kept as its characters.
Word(w) == [kind |-> "word", word |-> w, text |-> <<>>]
Text(t) == [kind |-> "text", word |-> "", text |-> t]

\* the decimal digits of a natural number
RECURSIVE digits(_)
digits(n) ==
    LET d == <<"0", "1", "2", "3", "4", "5", "6", "7", "8", "9">>[(n % 10) + 1]
    IN  IF n < 10 THEN <<d>> ELSE Append(digits(n \div 10), d)

\* str(x) of a float x given in tenths: sign, whole part, point, one decimal
str(x) ==
    LET a == IF x < 0 THEN 0 - x ELSE x
    IN  (IF x < 0 THEN <<"-">> ELSE <<>>) \o digits(a \div 10) \o <<".">> \o digits(a % 10)

Str_segment_pattern ==
    <<"s", "e", "g", "m", "e", "n", "t", "_", "%", "0", "3", "d", ".", "t", "s">>

\* the command with the offset written whatever the delay
ffmpeg_command_offset_always(movie_path, subtitle_path, stream_folder_path, subtitle_delay) ==
    <<Word("ffmpeg")>>
    \o <<Word("-i"), Text(movie_path)>>
    \o (IF subtitle_path # None
        THEN <<Word("-itsoffset"), Text(str(subtitle_delay))>>
             \o <<Word("-i"), Text(subtitle_path)>>
        ELSE <<>>)
    \o <<Word("-map"), Word("0:v"), Word("-map"), Word("0:a")>>
    \o (IF subtitle_path # None THEN <<Word("-map"), Word("1:0")>> ELSE <<>>)
    \o <<Word("-c:v"), Word("copy"), Word("-c:a"), Word("copy")>>
    \o (IF subtitle_path # None THEN <<Word("-c:s"), Word("webvtt")>> ELSE <<>>)
    \o <<Word("-start_number"), Word("0"), Word("-hls_time"), Word("10"),
         Word("-hls_list_size"), Word("0"),
         Word("-hls_segment_filename"), Text(join(stream_folder_path, Str_segment_pattern)),
         Text(join(stream_folder_path, Str_output_m3u8))>>

\* the list run_ffmpeg hands to subprocess.run
ffmpeg_command(movie_path, subtitle_path, stream_folder_path, subtitle_delay) ==
    <<Word("ffmpeg")>>
    \o <<Word("-i"), Text(movie_path)>>
    \o (IF subtitle_path # None
        THEN (IF subtitle_delay # 0
              THEN <<Word("-itsoffset"), Text(str(subtitle_delay))>>
              ELSE <<>>)
             \o <<Word("-i"), Text(subtitle_path)>>
        ELSE <<>>)
    \o <<Word("-map"), Word("0:v"), Word("-map"), Word("0:a")>>
    \o (IF subtitle_path # None THEN <<Word("-map"), Word("1:0")>> ELSE <<>>)
    \o <<Word("-c:v"), Word("copy"), Word("-c:a"), Word("copy")>>
    \o (IF subtitle_path # None THEN <<Word("-c:s"), Word("webvtt")>> ELSE <<>>)
    \o <<Word("-start_number"), Word("0"), Word("-hls_time"), Word("10"),
         Word("-hls_list_size"), Word("0"),
         Word("-hls_segment_filename"), Text(join(stream_folder_path, Str_segment_pattern)),
         Text(join(stream_folder_path, Str_output_m3u8))>>

\* One line of the master playlist: a tag with its attributes in order, a URI
\* line (no tag) or an empty line (no tag, no URI).
Line(tag, attrs, uri) == [tag |-> tag, attrs |-> attrs, uri |-> uri]
Blank == Line("", <<>>, "")

MediaLine ==
    Line("#EXT-X-MEDIA",
         << <<"TYPE", "SUBTITLES">>, <<"GROUP-ID", "\"subs\"">>,
            <<"NAME", "\"English\"">>, <<"DEFAULT", "NO">>, <<"AUTOSELECT", "YES">>,
            <<"LANGUAGE", "\"en\"">>, <<"URI", "\"output_vtt.m3u8\"">> >>, "")

StreamInfLine ==
    Line("#EXT-X-STREAM-INF",
         << <<"BANDWIDTH", "800000">>, <<"RESOLUTION", "1920x1080">> >>, "")

StreamInfSubsLine ==
    Line("#EXT-X-STREAM-INF",
         << <<"BANDWIDTH", "800000">>, <<"RESOLUTION", "1920x1080">>,
            <<"SUBTITLES", "\"subs\"">> >>, "")

\* the playlist with the subtitle track written whether or not there is a subtitle
master_playlist_always_subs(subtitle_path) ==
    <<Line("#EXTM3U", <<>>, ""), Blank>>
    \o <<MediaLine, Blank, StreamInfSubsLine>>
    \o <<Line("", <<>>, "output.m3u8")>>

\* the lines run_ffmpeg writes to master.m3u8
master_playlist(subtitle_path) ==
    <<Line("#EXTM3U", <<>>, ""), Blank>>
    \o (IF subtitle_path # None
        THEN <<MediaLine, Blank, StreamInfSubsLine>>
        ELSE <<StreamInfLine>>)
    \o <<Line("", <<>>, "output.m3u8")>>

\* ------------------------------------------------------------- run_ffmpeg alone
\* JobSpec calls run_ffmpeg with every combination of a video, a subtitle or
\* none, and a delay of up to MaxDelay tenths of a second either way, and looks at
\* the command it builds and at the master playlist it writes.
MaxDelay == 25

JobDelays == (0 - MaxDelay)..MaxDelay

JobInputs ==
    [ movie : { join(MOVIES_DIR, Str_v_ts), join(SIBLING_DIR, Str_x_ts) },
      subtitle : { None, join(MOVIES_DIR, Str_s_srt) },
      delay : JobDelays ]

NoJob == [called |-> "no", command |-> <<>>, master |-> <<>>]

JobInit ==
    /\ session = EmptySession
    /\ workers = EmptyBag
    /\ dirs = InitDirs
    /\ files = InitFiles
    /\ STREAM_FOLDER_PATH = None
    /\ cwd = LAUNCH_DIR
    /\ httpd = FALSE
    /\ running = TRUE
    /\ arg \in JobInputs
    /\ ret = NoJob

\* run_ffmpeg up to subprocess.run: the command is built
JobCommand ==
    /\ ret.called = "no"
    /\ ret' = [ret EXCEPT !.called = "command",
                          !.command = ffmpeg_command(arg.movie, arg.subtitle,
                                          join(dirname(arg.movie), Str_stream), arg.delay)]
    /\ UNCHANGED <<session, workers, dirs, files, STREAM_FOLDER_PATH, cwd, httpd, running, arg>>

\* the transcoder has exited with status zero: the master playlist is written
JobMaster ==
    /\ ret.called = "command"
    /\ ret' = [ret EXCEPT !.called = "master", !.master = master_playlist(arg.subtitle)]
    /\ UNCHANGED <<session, workers, dirs, files, STREAM_FOLDER_PATH, cwd, httpd, running, arg>>

JobNext == JobCommand \/ JobMaster

JobSpec == JobInit /\ [][JobNext]_vars

\* the positions of a word in a command
At(command, w) == { i \in 1..Len(command) : command[i] = Word(w) }

\* C11: the command holds -itsoffset exactly when a subtitle is given and the
\* delay is not zero; then it holds it once, followed by a text that reads back as
\* the delay, after the video input and directly before the subtitle's -i, which
\* is the last of the command's two inputs.
C11_OffsetFlag ==
    ret.called # "no" =>
        LET c == ret.command
            offs == At(c, "-itsoffset")
            ins == At(c, "-i")
        IN  /\ (offs # {}) <=> (arg.subtitle # None /\ arg.delay # 0)
            /\ offs # {} =>
                   /\ Cardinality(offs) = 1
                   /\ Cardinality(ins) = 2
                   /\ \A i \in offs :
                          /\ c[i + 1].kind = "text"
                          /\ float(c[i + 1].text).ok
                          /\ float(c[i + 1].text).val = arg.delay
                          /\ c[i + 2] = Word("-i")
                          /\ c[i + 3] = Text(arg.subtitle)
                          /\ \E v \in ins : v < i /\ c[v + 1] = Text(arg.movie)
                          /\ \A v \in ins : v <= i + 2

\* a command with a negative offset was built
C11_Witness ==
    /\ ret.called = "command"
    /\ arg.delay < 0
    /\ At(ret.command, "-itsoffset") # {}

\* the positions of the lines of a playlist with the given tag
Tagged(lines, tag) == { i \in 1..Len(lines) : lines[i].tag = tag }

\* the attribute names of a line
AttrNames(line) == { line.attrs[k][1] : k \in 1..Len(line.attrs) }

\* the values a line gives to an attribute
AttrValues(line, name) ==
    { line.attrs[k][2] : k \in { j \in 1..Len(line.attrs) : line.attrs[j][1] = name } }

\* C12: the master playlist has exactly one #EXT-X-STREAM-INF line, directly
\* followed by the URI line output.m3u8; without a subtitle that line has no
\* SUBTITLES attribute and there is no #EXT-X-MEDIA line; with a subtitle there is
\* exactly one #EXT-X-MEDIA line, of type SUBTITLES in group "subs", and the
\* STREAM-INF line has SUBTITLES="subs".
C12_MasterPlaylist ==
    ret.called = "master" =>
        LET m == ret.master
            inf == Tagged(m, "#EXT-X-STREAM-INF")
            media == Tagged(m, "#EXT-X-MEDIA")
        IN  /\ Cardinality(inf) = 1
            /\ \A i \in inf :
                   /\ i < Len(m)
                   /\ m[i + 1] = Line("", <<>>, "output.m3u8")
                   /\ IF arg.subtitle = None
                      THEN "SUBTITLES" \notin AttrNames(m[i])
                      ELSE AttrValues(m[i], "SUBTITLES") = {"\"subs\""}
            /\ IF arg.subtitle = None
               THEN media = {}
               ELSE /\ Cardinality(media) = 1
                    /\ \A i \in media :
                           /\ AttrValues(m[i], "TYPE") = {"SUBTITLES"}
                           /\ AttrValues(m[i], "GROUP-ID") = {"\"subs\""}

\* the master playlist of a job with a subtitle was written
C12_Witness ==
    /\ ret.called = "master"
    /\ arg.subtitle # None
    /\ Tagged(ret.master, "#EXT-X-MEDIA") # {}

\* ------------------------------------------------------------- two directories
\* DirSpec runs the same handlers and threads on a tree with a video in
\* MOVIES_DIR and a video in a subdirectory of it, so that two jobs can have two
\* output directories, both inside MOVIES_DIR.
DirFiles == { join(MOVIES_DIR, Str_v_ts), join(join(MOVIES_DIR, Str_a), Str_x_ts) }

DirSelectPaths == { Str_v_ts, joinSlash(<<Str_a, Str_x_ts>>) }

DirInit ==
    /\ session = EmptySession
    /\ workers = EmptyBag
    /\ dirs = InitDirs
    /\ files = DirFiles
    /\ STREAM_FOLDER_PATH = None
    /\ cwd = LAUNCH_DIR
    /\ httpd = FALSE
    /\ running = TRUE
    /\ arg = <<>>
    /\ ret = NoRet

DirNext ==
    \/ \E p \in DirSelectPaths : select_file(p)
    \/ \E d \in FormDelays : start_stream(d)
    \/ \E ok \in BOOLEAN : stop_stream(ok)
    \/ \E w \in BagToSet(workers) : run_ffmpeg_begin(w)
    \/ \E w \in BagToSet(workers), rc \in ReturnCodes : ffmpeg_exit(w, rc)
    \/ \E w \in BagToSet(workers) : serve_output(w)
    \/ \E ok \in BOOLEAN : process_exit(ok)

DirSpec == DirInit /\ [][DirNext]_vars

\* C13: when the process ends and rmtree raises nothing, the directory named by
\* STREAM_FOLDER_PATH is gone, and so is the output directory of every job that
\* was Starting or Running at that moment.
C13_ExitCleansUp ==
    [][ process_exit(TRUE) =>
            /\ STREAM_FOLDER_PATH # None => STREAM_FOLDER_PATH \notin dirs'
            /\ \A w \in BagToSet(Active(workers)) : w.folder \notin dirs' ]_vars

\* ------------------------------------------------------------- unreadable files
\* IoSpec runs the handlers and threads on a tree where a video and a subtitle
\* exist but cannot be read, beside a video and a subtitle that can.
IoFiles ==
    { join(MOVIES_DIR, Str_v_ts), join(MOVIES_DIR, Str_s_srt) } \cup Unreadable

IoSelectPaths == { Str_v_ts, Str_s_srt, Str_c_ts, Str_c_srt }

IoInit ==
    /\ session = EmptySession
    /\ workers = EmptyBag
    /\ dirs = InitDirs
    /\ files = IoFiles
    /\ STREAM_FOLDER_PATH = None
    /\ cwd = LAUNCH_DIR
    /\ httpd = FALSE
    /\ running = TRUE
    /\ arg = <<>>
    /\ ret = NoRet

IoNext ==
    \/ \E p \in IoSelectPaths : select_file(p)
    \/ \E d \in FormDelays : start_stream(d)
    \/ \E ok \in BOOLEAN : stop_stream(ok)
    \/ \E w \in BagToSet(workers) : run_ffmpeg_begin(w)
    \/ \E w \in BagToSet(workers), rc \in ReturnCodes : ffmpeg_exit(w, rc)
    \/ \E w \in BagToSet(workers) : serve_output(w)
    \/ \E ok \in BOOLEAN : process_exit(ok)

IoSpec == IoInit /\ [][IoNext]_vars

\* the paths ensure_local was called with, in order
Paths(local) == [i \in 1..Len(local) |-> local[i][1]]

\* C14: every thread, from its creation on and so before its transcoder runs, was
\* preceded by returned calls of ensure_local for its video and then, if it has a
\* subtitle, for its subtitle; and a start request whose selection exists and
\* whose delay is well formed is answered 200 and creates its thread whether or
\* not the files can be read.
C14_MaterializedBeforeWorker ==
    /\ [] (\A w \in BagToSet(workers) :
               /\ Paths(w.local) = IF w.subtitle # None THEN <<w.movie, w.subtitle>>
                                   ELSE <<w.movie>>
               /\ \A i \in 1..Len(w.local) : w.local[i][2] \in {"read", "warning"})
    /\ [] ((running /\ ValidSelection) =>
               \A d \in { f \in FormDelays : WellFormed(f) } :
                   start_response(d).status = 200)
    /\ [][ ValidSelection =>
               \A d \in { f \in FormDelays : WellFormed(f) } :
                   start_stream(d) =>
                       \E w \in BagToSet(workers') :
                           /\ w.phase = "spawned"
                           /\ w.movie = PathOf(Location(session["video"]))
                           /\ workers' = workers (+) SetToBag({w}) ]_vars

\* the transcoder of a job runs whose video and subtitle could not be read
C14_Witness ==
    \E w \in BagToSet(workers) :
        /\ w.phase = "transcoding"
        /\ Len(w.local) = 2
        /\ \A i \in 1..2 : w.local[i][2] = "warning"

\* C15: when a transcoder exits non-zero its thread ends and nothing else
\* changes: no file is written (no master playlist), no port is bound, no
\* directory is deleted (the output directory stays, unless a stop request had
\* deleted it while the transcoder ran), the web process goes on, the other
\* threads go on; and a start request that follows with a valid selection is
\* answered 200 (the step leaves the session, the files and the working
\* directory, which are all that the answer is computed from, as they were).
C15_TranscodeFailure ==
    [][ \A w \in BagToSet(workers) :
            (\E rc \in ReturnCodes \ {0} : ffmpeg_exit(w, rc)) =>
                /\ workers' = Dies(w)
                /\ files' = files
                /\ dirs' = dirs
                /\ httpd' = httpd
                /\ running'
                /\ UNCHANGED <<session, STREAM_FOLDER_PATH, cwd>>
                /\ ValidSelection =>
                       \A d \in { f \in FormDelays : WellFormed(f) } :
                           start_response(d) = Resp(200, "http://host:9000/output.m3u8") ]_vars

\* a transcoder failed (its directory is there, with no playlist, and its thread
\* is gone) and a start request has been accepted since
C15_Witness ==
    /\ running
    /\ ~httpd
    /\ STREAM_FOLDER_PATH # None
    /\ isdir(STREAM_FOLDER_PATH)
    /\ ~isfile(join(STREAM_FOLDER_PATH, Str_master_m3u8))
    /\ workers # EmptyBag
    /\ \A w \in BagToSet(workers) : w.phase = "spawned"

\* a job is Starting with its transcoder in flight
Transcoding(b) == InPhase(b, {"transcoding"})

\* C16: a stop request that arrives while a transcoder is in flight leaves every
\* thread as it was, and with them the port, the global and the working
\* directory; it clears the session and deletes at most the directory it derives
\* from the session's video.
C16_StopLeavesWorker ==
    [][ \A ok \in BOOLEAN :
            (Transcoding(workers) # EmptyBag /\ stop_stream(ok)) =>
                /\ workers' = workers
                /\ UNCHANGED <<httpd, STREAM_FOLDER_PATH, cwd, running>>
                /\ session' = EmptySession
                /\ dirs' \subseteq dirs
                /\ files' \subseteq files
                /\ \A p \in (dirs \ dirs') \cup (files \ files') :
                       stop_folder # None /\ Under(p, stop_folder) ]_vars

\* a transcoder is in flight whose output directory a stop request has deleted
C16_Witness ==
    /\ running
    /\ session = EmptySession
    /\ \E w \in BagToSet(workers) : w.phase = "transcoding" /\ ~isdir(w.folder)

\* C17: no transcoder is in flight into a directory that a listening server
\* serves, and a transcoder that exits with status zero finds none of its
\* playlists and segments already written.
C17_ServeEncodeDisjoint ==
    /\ [] (\A s \in BagToSet(Serving(workers)), t \in BagToSet(Transcoding(workers)) :
               t.folder # s.folder)
    /\ [][ \A w \in BagToSet(workers) :
               ffmpeg_exit(w, 0) =>
                   (ffmpeg_output(w.folder) \cup { join(w.folder, Str_master_m3u8) })
                       \cap files = {} ]_vars

\* C18: while a server listens, the directory it serves files from (the
\* process's working directory, which SimpleHTTPRequestHandler reads at each
\* request) is the output directory of the job whose thread started it.
C18_ServerRoot ==
    \A s \in BagToSet(Serving(workers)) : cwd = s.folder

\* C19: the directory a stop request hands to rmtree is the output directory of
\* the most recently started job. Stated where that job is known from the state:
\* one thread exists and no thread has entered run_ffmpeg yet, so that exactly
\* one job has been started; and a video is selected.
C19_StopTargetsLastJob ==
    (running /\ HasVideo /\ STREAM_FOLDER_PATH = None /\ BagCardinality(workers) = 1) =>
        \A w \in BagToSet(workers) : stop_folder = w.folder

\* C20 as stated: after a stop request every start request is answered 400
\* "No video selected".
C20_StartAfterStopIs400 ==
    [][ \A ok \in BOOLEAN :
            stop_stream(ok) =>
                \A d \in FormDelays : start_response(d)' = Resp(400, "No video selected") ]_vars

\* C20: a stop request leaves no video, subtitle or delay in the session; and as
\* long as the session is as the stop left it, a start request whose delay field
\* is absent or a number is answered 400 "No video selected" (one whose delay
\* field is not a number is answered 500) and creates no thread.
C20_StopClearsSession ==
    /\ [][ \A ok \in BOOLEAN :
               stop_stream(ok) =>
                   /\ session' = EmptySession
                   /\ \A d \in FormDelays :
                          start_response(d)' = IF WellFormed(d)
                                               THEN Resp(400, "No video selected")
                                               ELSE Resp(500, "ValueError") ]_vars
    /\ [][ \A d \in FormDelays :
               (session = EmptySession /\ start_stream(d)) =>
                   /\ workers' = workers
                   /\ ~HasVideo' ]_vars

\* a stop request cleared a session that held a video, a subtitle and a delay,
\* while the job started from it goes on
C20_Witness ==
    /\ running
    /\ session = EmptySession
    /\ \E w \in BagToSet(workers) : w.subtitle # None

====
